---- MODULE Spec2Model ----
(***************************************************************************)
(* Model of mesh_cleanup_api/main.py: the two POST handlers                *)
(* (clean_mesh_endpoint, clean_point_cloud_endpoint), the temporary files  *)
(* they create in the shared temp directory, the responses they give, and  *)
(* the health check (root).                                                *)
(*                                                                         *)
(* Strings that the code tests or rewrites (file names, paths, formats)    *)
(* are sequences of one-character strings, so that str.endswith and        *)
(* str.replace are computed on characters; a fixed part that neither       *)
(* looks at is one element.  Messages (HTTP details, log                   *)
(* lines) are sequences of segments: the literal parts of the f-string and *)
(* the interpolated values.                                                *)
(*                                                                         *)
(* The geometry library (open3d) is opaque: a point cloud is its point     *)
(* count, a mesh is the stage that produced it, and every library call     *)
(* either returns or raises.  logger.info lines are not modelled; the      *)
(* logger.error line of each except clause is.                             *)
(***************************************************************************)
EXTENDS Integers, Sequences, FiniteSets, TLC

\* ---------------------------------------------------------------- bounds
NumReqs == 2
\* number of distinct names tempfile can draw (the code: 37^8)
NumNames == 2

\* ------------------------------------------------------ program constants
MIN_POINTS == 1000

Reqs == 1..NumReqs

\* None, for the Optional[str] values (return_format, input_path, output_path)
None == <<"<None>">>

\* ------------------------------------------------------------- the strings
S_ply == <<"p", "l", "y">>
S_obj == <<"o", "b", "j">>
S_stl == <<"s", "t", "l">>
DotPly == <<".">> \o S_ply
\* '_cleaned.': the text put in, one element for "_cleaned"
CleanedDot == <<"_cleaned", ".">>

\* str.endswith
EndsWith(s, suf) ==
    /\ Len(s) >= Len(suf)
    /\ SubSeq(s, Len(s) - Len(suf) + 1, Len(s)) = suf

\* does old occur in s at position i
OccursAt(s, old, i) ==
    /\ i + Len(old) - 1 <= Len(s)
    /\ SubSeq(s, i, i + Len(old) - 1) = old

RECURSIVE ReplaceFrom(_, _, _, _)
ReplaceFrom(s, old, new, i) ==
    IF i > Len(s) THEN <<>>
    ELSE IF OccursAt(s, old, i)
         THEN new \o ReplaceFrom(s, old, new, i + Len(old))
         ELSE <<s[i]>> \o ReplaceFrom(s, old, new, i + 1)

\* str.replace(old, new): every non-overlapping occurrence, left to right
\* (old is never empty here)
Replace(s, old, new) == ReplaceFrom(s, old, new, 1)

\* a value is truthy in `if input_path and ...`
Truthy(s) == s # None /\ s # <<>>

\* ---------------------------------------------------------- request inputs
\* uploaded file names: "a.b.ply", "a.obj"
Filenames == { <<"a", ".", "b">> \o DotPly, <<"a", ".">> \o S_obj }

\* the return_format clean_mesh_endpoint can be called with; an absent query
\* parameter is bound to the default, 'ply'
ReturnFormats == {S_ply, S_obj, S_stl, None}

\* ------------------------------------------------------------ temp files
\* the directory and the fixed prefix are one element each: neither holds
\* the text '.ply' that str.replace looks for
TempDir == <<"/tmp/">>
NameAlphabet == <<"a", "b", "c", "d", "e", "f">>
Names == { NameAlphabet[i] : i \in 1..NumNames }

\* the path tempfile builds: dir + prefix "tmp" + random part + suffix
TempPath(n) == TempDir \o <<"tmp">> \o <<n>> \o DotPly

\* the point counts of the clouds uploaded: none, and one more than the
\* handler asks for; and the counts a cloud is left with by the removals:
\* the two on either side of the handler's check
DecodedCounts == {0, MIN_POINTS + 1}
PointCounts == {MIN_POINTS - 1, MIN_POINTS}

VARIABLES
    pc,           \* where each request's handler is
    req,          \* the handler's parameters: endpoint, filename, return_format
    tmp_input,    \* the path of the NamedTemporaryFile the handler has open
    input_path,   \* the handler's local input_path
    pcd,          \* the point count of the handler's pcd, as last assigned
    mesh,         \* the handler's mesh
    fs,           \* the temp directory: path -> the file's content
    resp,         \* the response the handler returned or raised
    log,          \* the logger.error lines of the request
    stages,       \* the stages the request has executed, in order
    sent          \* what the caller received from a FileResponse

vars == <<pc, req, tmp_input, input_path, pcd, mesh, fs, resp, log, stages,
          sent>>

NoReq == [endpoint |-> "none", filename |-> <<>>, return_format |-> None]
\* a response: its status, the detail of an HTTPException, the path and the
\* file name of a FileResponse, the members of a JSON object returned
NoResp ==
    [status |-> 0, detail |-> <<>>, path |-> None, filename |-> <<>>,
     json |-> {}]

\* a file's content: who wrote it, what it holds, and whether it was written
\* (a NamedTemporaryFile is created empty)
NoContent == [owner |-> 0, kind |-> "none", whole |-> FALSE]
NoSent == [status |-> 0, filename |-> <<>>, body |-> NoContent]

\* os.path.exists
Exists(f, p) == p \in DOMAIN f

\* os.unlink
Unlink(f, p) == [q \in (DOMAIN f) \ {p} |-> f[q]]

\* writing a file: create or overwrite
WriteFile(f, p, c) == [q \in (DOMAIN f) \cup {p} |-> IF q = p THEN c ELSE f[q]]

Init ==
    /\ pc = [r \in Reqs |-> "idle"]
    /\ req = [r \in Reqs |-> NoReq]
    /\ tmp_input = [r \in Reqs |-> None]
    /\ input_path = [r \in Reqs |-> None]
    /\ pcd = [r \in Reqs |-> 0]
    /\ mesh = [r \in Reqs |-> "none"]
    /\ fs = [p \in {} |-> NoContent]
    /\ resp = [r \in Reqs |-> NoResp]
    /\ log = [r \in Reqs |-> <<>>]
    /\ stages = [r \in Reqs |-> <<>>]
    /\ sent = [r \in Reqs |-> NoSent]

\* ------------------------------------------------------------ exceptions
HTTPException(status, detail) ==
    [kind |-> "HTTPException", status |-> status, detail |-> detail]

\* an exception raised by the library, the file system or the upload
Raised(what) == [kind |-> "Exception", status |-> 0, detail |-> <<what>>]

\* str(e).  For an HTTPException it depends on the installed Starlette:
\* "{status_code}: {detail}" where the class defines __str__, "" where it
\* does not (the exception is constructed with keyword arguments only).
StrOf(e) ==
    IF e.kind = "HTTPException"
    THEN { <<ToString(e.status), ": ">> \o e.detail, <<>> }
    ELSE { e.detail }

MeshPrefix == "Error processing mesh: "
PcPrefix == "Error processing point cloud: "

\* the prefix of the except clause of the handler r runs
Prefix(r) == IF req[r].endpoint = "clean-mesh" THEN MeshPrefix ELSE PcPrefix

\* a handler without the finally clause
Finally_Skipped(f, ip) == f

\* a cleanup that empties the temp directory
Finally_EmptiesTempDir(f, ip) ==
    IF Truthy(ip) /\ Exists(f, ip) THEN [q \in {} |-> NoContent] ELSE f

\* the finally clause: unlink input_path when it is set and the file exists
Finally(f, ip) == IF Truthy(ip) /\ Exists(f, ip) THEN Unlink(f, ip) ELSE f

\* the handler is left: its locals are gone
Leave(r) ==
    /\ tmp_input' = [tmp_input EXCEPT ![r] = None]
    /\ input_path' = [input_path EXCEPT ![r] = None]
    /\ pcd' = [pcd EXCEPT ![r] = 0]
    /\ mesh' = [mesh EXCEPT ![r] = "none"]

\* an except clause that lets an HTTPException through as it is
Except_ReraisesHTTPException(r, e) ==
    /\ IF e.kind = "HTTPException"
       THEN /\ resp' = [resp EXCEPT ![r] =
                          [NoResp EXCEPT !.status = e.status,
                                         !.detail = e.detail]]
            /\ UNCHANGED log
       ELSE /\ log' = [log EXCEPT ![r] = Append(@, <<Prefix(r)>> \o e.detail)]
            /\ resp' = [resp EXCEPT ![r] =
                          [NoResp EXCEPT !.status = 500,
                                         !.detail = <<Prefix(r)>> \o e.detail]]
    /\ fs' = Finally(fs, input_path[r])
    /\ pc' = [pc EXCEPT ![r] = "responded"]
    /\ Leave(r)

\* the except clause followed by the finally clause: log the error, raise
\* HTTPException(500) with str(e) in its detail, clean up
Except(r, e) ==
    \E s \in StrOf(e) :
        /\ log' = [log EXCEPT ![r] = Append(@, <<Prefix(r)>> \o s)]
        /\ resp' = [resp EXCEPT ![r] =
                      [NoResp EXCEPT !.status = 500,
                                     !.detail = <<Prefix(r)>> \o s]]
        /\ fs' = Finally(fs, input_path[r])
        /\ pc' = [pc EXCEPT ![r] = "responded"]
        /\ Leave(r)

\* ------------------------------------------------------------- validation
\* a check that accepts any name with an extension
ValidFilename_AnyExtension(fn) == "." \in { fn[i] : i \in DOMAIN fn }

ValidFilename(fn) == EndsWith(fn, DotPly)

\* a check that only asks for a return_format to be given
ValidReturnFormat_AnyGiven(rf) == rf # None

ValidReturnFormat(rf) == rf \in {S_ply, S_obj}

\* the status and detail of the HTTPException the checks before the try
\* block raise, or 0 when they pass
MeshValidate(fn, rf) ==
    IF ~ValidFilename(fn)
    THEN <<400, "Only PLY files are supported">>
    ELSE IF ~ValidReturnFormat(rf)
         THEN <<400, "return_format must be 'ply' or 'obj'">>
         ELSE <<0, "">>

PcValidate(fn) ==
    IF ~ValidFilename(fn)
    THEN <<400, "Only PLY files are supported">>
    ELSE <<0, "">>

\* the handler is called with its parameters and runs its checks: it raises
\* HTTPException(400) outside the try block, or goes on to the try block
Enter(r, ep, fn, rf, v) ==
    /\ pc[r] = "idle"
    /\ req' = [req EXCEPT ![r] =
                 [endpoint |-> ep, filename |-> fn, return_format |-> rf]]
    /\ IF v[1] # 0
       THEN /\ resp' = [resp EXCEPT ![r] =
                          [NoResp EXCEPT !.status = v[1], !.detail = <<v[2]>>]]
            /\ pc' = [pc EXCEPT ![r] = "responded"]
       ELSE /\ pc' = [pc EXCEPT ![r] = "mktemp"]
            /\ UNCHANGED resp
    /\ UNCHANGED <<tmp_input, input_path, pcd, mesh, fs, log, stages, sent>>

MeshEnter(r) ==
    \E fn \in Filenames, rf \in ReturnFormats :
        Enter(r, "clean-mesh", fn, rf, MeshValidate(fn, rf))

PcEnter(r) ==
    \E fn \in Filenames :
        Enter(r, "clean-point-cloud", fn, None, PcValidate(fn))

\* ------------------------------------------------------------ health check
\* a health check that clears the temp directory
root_SweepsTempDir(r) ==
    /\ pc[r] = "idle"
    /\ req' = [req EXCEPT ![r] = [NoReq EXCEPT !.endpoint = "root"]]
    /\ resp' = [resp EXCEPT ![r] =
                  [NoResp EXCEPT
                     !.status = 200,
                     !.json = {<<"status", "ok">>,
                               <<"service", "Mesh Cleanup API">>}]]
    /\ pc' = [pc EXCEPT ![r] = "responded"]
    /\ fs' = [p \in {} |-> NoContent]
    /\ UNCHANGED <<tmp_input, input_path, pcd, mesh, log, stages, sent>>

\* GET /: return {"status": "ok", "service": "Mesh Cleanup API"}, which the
\* framework sends with status 200
root(r) ==
    /\ pc[r] = "idle"
    /\ req' = [req EXCEPT ![r] = [NoReq EXCEPT !.endpoint = "root"]]
    /\ resp' = [resp EXCEPT ![r] =
                  [NoResp EXCEPT
                     !.status = 200,
                     !.json = {<<"status", "ok">>,
                               <<"service", "Mesh Cleanup API">>}]]
    /\ pc' = [pc EXCEPT ![r] = "responded"]
    /\ UNCHANGED <<tmp_input, input_path, pcd, mesh, fs, log, stages, sent>>

\* ----------------------------------------------------------------- stages
\* a name picked without looking at the directory
FreeNames_NoExclusiveOpen(f) == Names

\* the names tempfile may pick: it opens with O_EXCL, so never an existing file
FreeNames(f) == { n \in Names : ~Exists(f, TempPath(n)) }

\* tempfile.NamedTemporaryFile(delete=False, suffix='.ply'): creates an
\* empty file under a fresh name, or raises
CreateTemp(r) ==
    /\ pc[r] = "mktemp"
    /\ \/ \E n \in FreeNames(fs) :
             /\ fs' = WriteFile(fs, TempPath(n),
                                [owner |-> r, kind |-> "upload", whole |-> FALSE])
             /\ tmp_input' = [tmp_input EXCEPT ![r] = TempPath(n)]
             /\ pc' = [pc EXCEPT ![r] = "save"]
             /\ UNCHANGED <<input_path, pcd, mesh, resp, log>>
       \/ Except(r, Raised("cannot create temporary file"))
    /\ UNCHANGED <<req, stages, sent>>

\* the body of the with block: content = await file.read();
\* tmp_input.write(content); input_path = tmp_input.name.  An exception in
\* the read or the write leaves the block before input_path is assigned;
\* leaving the block closes the file and, with delete=False, keeps it.
SaveUpload(r) ==
    /\ pc[r] = "save"
    /\ \/ /\ fs' = WriteFile(fs, tmp_input[r],
                             [owner |-> r, kind |-> "upload", whole |-> TRUE])
          /\ input_path' = [input_path EXCEPT ![r] = tmp_input[r]]
          /\ pc' = [pc EXCEPT ![r] = "decode"]
          /\ UNCHANGED <<tmp_input, pcd, mesh, resp, log>>
       \/ Except(r, Raised("reading or writing the upload failed"))
    /\ UNCHANGED <<req, stages, sent>>

Ran(r, names) == [stages EXCEPT ![r] = @ \o names]

\* pcd = o3d.io.read_point_cloud(input_path), then the emptiness check: its
\* HTTPException(400) is raised inside the try block, so the except clause
\* catches it like any other exception
Decode(r) ==
    /\ pc[r] = "decode"
    /\ stages' = Ran(r, <<"decode">>)
    /\ \/ \E n \in DecodedCounts :
             IF n = 0
             THEN Except(r, HTTPException(400, <<"Point cloud is empty">>))
             ELSE /\ pcd' = [pcd EXCEPT ![r] = n]
                  /\ pc' = [pc EXCEPT ![r] = "clean"]
                  /\ UNCHANGED <<tmp_input, input_path, mesh, fs, resp, log>>
       \/ Except(r, Raised("read_point_cloud failed"))
    /\ UNCHANGED <<req, sent>>

\* a cleaning that runs the radius removal before the statistical one
clean_point_cloud_RadiusFirst(n) ==
    { [ran |-> <<"radius", "statistical">>, exc |-> "", count |-> n] }

\* a cleaning that resamples the cloud and returns one more point
clean_point_cloud_Resamples(n) ==
    { [ran |-> <<"statistical", "radius">>, exc |-> "", count |-> n + 1] }

\* clean_point_cloud on a cloud of n points: statistical outlier removal,
\* then radius outlier removal; each keeps a subset of the points it is
\* given, or raises.  An outcome: the removals run, the exception raised
\* ("" for none), the count of the cloud returned.
clean_point_cloud(n) ==
    { [ran |-> <<"statistical">>,
       exc |-> "remove_statistical_outlier failed", count |-> n] }
    \cup
    { [ran |-> <<"statistical", "radius">>,
       exc |-> "remove_radius_outlier failed", count |-> n] }
    \cup
    { [ran |-> <<"statistical", "radius">>, exc |-> "", count |-> n2] :
        n2 \in { k \in PointCounts :
                   \E n1 \in PointCounts : k <= n1 /\ n1 <= n } }

TooFew(n) ==
    <<"Too few points after cleaning (", ToString(n),
      "). Original scan may be too noisy.">>

\* clean_mesh_endpoint: pcd = clean_point_cloud(pcd), then the check of the
\* remaining count, whose HTTPException(400) the except clause catches
MeshCleanPointCloud(r) ==
    /\ req[r].endpoint = "clean-mesh"
    /\ pc[r] = "clean"
    /\ \E o \in clean_point_cloud(pcd[r]) :
          /\ stages' = Ran(r, o.ran)
          /\ IF o.exc # ""
             THEN Except(r, Raised(o.exc))
             ELSE IF o.count < MIN_POINTS
                  THEN Except(r, HTTPException(400, TooFew(o.count)))
                  ELSE /\ pcd' = [pcd EXCEPT ![r] = o.count]
                       /\ pc' = [pc EXCEPT ![r] = "reconstruct"]
                       /\ UNCHANGED <<tmp_input, input_path, mesh, fs, resp,
                                      log>>
    /\ UNCHANGED <<req, sent>>

\* clean_point_cloud_endpoint: pcd = clean_point_cloud(pcd); whatever count
\* remains goes on to be saved
PcCleanPointCloud(r) ==
    /\ req[r].endpoint = "clean-point-cloud"
    /\ pc[r] = "clean"
    /\ \E o \in clean_point_cloud(pcd[r]) :
          /\ stages' = Ran(r, o.ran)
          /\ IF o.exc # ""
             THEN Except(r, Raised(o.exc))
             ELSE /\ pcd' = [pcd EXCEPT ![r] = o.count]
                  /\ pc' = [pc EXCEPT ![r] = "serialize"]
                  /\ UNCHANGED <<tmp_input, input_path, mesh, fs, resp, log>>
    /\ UNCHANGED <<req, sent>>

\* mesh = create_mesh_from_point_cloud(pcd): normals, Poisson
\* reconstruction, density filter
create_mesh_from_point_cloud(r) ==
    /\ pc[r] = "reconstruct"
    /\ stages' = Ran(r, <<"reconstruct">>)
    /\ \/ /\ mesh' = [mesh EXCEPT ![r] = "reconstructed"]
          /\ pc' = [pc EXCEPT ![r] = "mesh_clean"]
          /\ UNCHANGED <<tmp_input, input_path, pcd, fs, resp, log>>
       \/ Except(r, Raised("reconstruction failed"))
    /\ UNCHANGED <<req, sent>>

\* mesh = clean_mesh(mesh): remove degenerate and duplicated parts, smooth,
\* fill holes
clean_mesh(r) ==
    /\ pc[r] = "mesh_clean"
    /\ stages' = Ran(r, <<"mesh_clean">>)
    /\ \/ /\ mesh' = [mesh EXCEPT ![r] = "cleaned"]
          /\ pc' = [pc EXCEPT ![r] = "serialize"]
          /\ UNCHANGED <<tmp_input, input_path, pcd, fs, resp, log>>
       \/ Except(r, Raised("mesh repair failed"))
    /\ UNCHANGED <<req, sent>>

\* output_path = input_path.replace('.ply', '_cleaned.<ext>')
OutputPath(ip, ext) == Replace(ip, DotPly, CleanedDot \o ext)

\* Path(name).stem: the final component without its last suffix
RECURSIVE LastIndexOf(_, _, _)
LastIndexOf(s, c, i) ==
    IF i = 0 THEN 0 ELSE IF s[i] = c THEN i ELSE LastIndexOf(s, c, i - 1)

BaseName(s) == SubSeq(s, LastIndexOf(s, "/", Len(s)) + 1, Len(s))

\* a stem that is the whole final component, suffix included
Stem_KeepsSuffix(s) == BaseName(s)

Stem(s) ==
    LET name == BaseName(s)
        i == LastIndexOf(name, ".", Len(name))
    IN IF 1 < i /\ i < Len(name) THEN SubSeq(name, 1, i - 1) ELSE name

\* what o3d.io.write_triangle_mesh / write_point_cloud can leave in the temp
\* directory when it returns: the file written (it returned True), or the
\* directory as it was (it returned False)
WriteResults(f, p, r, kind) ==
    { WriteFile(f, p, [owner |-> r, kind |-> kind, whole |-> TRUE]), f }

\* the rest of the try block: output_path is computed, the library writes
\* the file (the handler does not look at the boolean it returns),
\* FileResponse(output_path, filename=f"{stem}_cleaned.<ext>") is returned
\* and the finally clause runs; or the write raises
Serialize(r, ext, kind) ==
    /\ pc[r] = "serialize"
    /\ stages' = Ran(r, <<"serialize">>)
    /\ LET output_path == OutputPath(input_path[r], ext) IN
       \/ /\ \E f \in WriteResults(fs, output_path, r, kind) :
                fs' = Finally(f, input_path[r])
          /\ resp' = [resp EXCEPT ![r] =
                        [NoResp EXCEPT
                           !.status = 200,
                           !.path = output_path,
                           !.filename =
                               Stem(req[r].filename) \o CleanedDot \o ext]]
          /\ pc' = [pc EXCEPT ![r] = "streaming"]
          /\ Leave(r)
          /\ UNCHANGED log
       \/ Except(r, Raised("write failed"))
    /\ UNCHANGED <<req, sent>>

\* FileResponse, after the handler has returned: it stats the path and
\* streams what the file holds then, under the download file name; a missing
\* file is a RuntimeError, which the server answers with 500.  The response
\* object is gone once it is sent.
Stream(r) ==
    /\ pc[r] = "streaming"
    /\ sent' = [sent EXCEPT ![r] =
                  IF Exists(fs, resp[r].path)
                  THEN [status |-> 200, filename |-> resp[r].filename,
                        body |-> fs[resp[r].path]]
                  ELSE [status |-> 500, filename |-> <<>>, body |-> NoContent]]
    /\ resp' = [resp EXCEPT ![r] = NoResp]
    /\ pc' = [pc EXCEPT ![r] = "done"]
    /\ UNCHANGED <<req, tmp_input, input_path, pcd, mesh, fs, log, stages>>

\* clean_mesh_endpoint writes the mesh in the requested format
MeshSerialize(r) ==
    /\ req[r].endpoint = "clean-mesh"
    /\ Serialize(r, req[r].return_format, "mesh")

\* clean_point_cloud_endpoint writes the point cloud as PLY
PcSerialize(r) ==
    /\ req[r].endpoint = "clean-point-cloud"
    /\ Serialize(r, S_ply, "pointcloud")

Next ==
    \E r \in Reqs :
        \/ root(r)
        \/ MeshEnter(r)
        \/ PcEnter(r)
        \/ CreateTemp(r)
        \/ SaveUpload(r)
        \/ Decode(r)
        \/ MeshCleanPointCloud(r)
        \/ PcCleanPointCloud(r)
        \/ create_mesh_from_point_cloud(r)
        \/ clean_mesh(r)
        \/ MeshSerialize(r)
        \/ PcSerialize(r)
        \/ Stream(r)

Spec == Init /\ [][Next]_vars

\* a step of the handler of a request that has been received, or of the
\* server sending its response
Advance(r) ==
    \/ CreateTemp(r)
    \/ SaveUpload(r)
    \/ Decode(r)
    \/ MeshCleanPointCloud(r)
    \/ PcCleanPointCloud(r)
    \/ create_mesh_from_point_cloud(r)
    \/ clean_mesh(r)
    \/ MeshSerialize(r)
    \/ PcSerialize(r)
    \/ Stream(r)

\* every call a handler makes returns or raises, and the event loop goes on
\* running a handler that can go on; whether a request is sent at all is
\* left to the client
FairSpec == Spec /\ \A r \in Reqs : WF_vars(Advance(r))

\* ----------------------------------------------------- the density filter
\* create_mesh_from_point_cloud at the level of vertices.  Only what the
\* filter looks at is kept of a mesh: for each density value, how many
\* vertices have it.  The handler's mesh is here the pair of its locals
\* mesh (the vertices) and densities (the array the reconstruction returned
\* with it).  Densities are integers and the arithmetic is exact; numpy
\* computes the same expressions in floating point.

\* the density values and the numbers of vertices that can share one
Densities == {1, 2, 3}
Multiplicities == {0, 1, 2, 100}

\* the meshes and densities create_from_point_cloud_poisson can return
PoissonMeshes == [Densities -> Multiplicities]

RECURSIVE SumOver(_, _)
SumOver(d, vs) ==
    IF vs = {} THEN 0
    ELSE LET v == CHOOSE x \in vs : TRUE IN d[v] + SumOver(d, vs \ {v})

\* len(densities)
NumVertices(d) == SumOver(d, DOMAIN d)

\* sorted(densities)[j], j counted from 0
SortedAt(d, j) ==
    CHOOSE v \in DOMAIN d :
        /\ SumOver(d, { u \in DOMAIN d : u < v }) <= j
        /\ j < SumOver(d, { u \in DOMAIN d : u <= v })

\* 100 * np.quantile(densities, 0.01), method 'linear': with the virtual
\* index h = 0.01 * (n - 1), i = floor(h) and g = h - i, the value
\* a[i] + g * (a[i + 1] - a[i]) of the sorted densities a
Quantile100(d) ==
    LET n == NumVertices(d)
        i == (n - 1) \div 100
        g100 == (n - 1) % 100
        lo == SortedAt(d, i)
        hi == IF g100 = 0 THEN lo ELSE SortedAt(d, i + 1)
    IN 100 * lo + g100 * (hi - lo)

\* a mask that also takes the vertices at the threshold
VerticesToRemove_AtOrBelow(v, t100) == 100 * v <= t100

\* vertices_to_remove = densities < density_threshold, for a vertex of
\* density v
VerticesToRemove(v, t100) == 100 * v < t100

\* the density filter: nothing to do for a mesh without vertices; else the
\* vertices under the mask are removed
remove_vertices_by_mask(d) ==
    IF NumVertices(d) > 0
    THEN [v \in DOMAIN d |->
            IF VerticesToRemove(v, Quantile100(d)) THEN 0 ELSE d[v]]
    ELSE d

NoVertices == [v \in Densities |-> 0]
NoMesh == [vertices |-> NoVertices, densities |-> NoVertices]

InitDensity ==
    /\ pc = [r \in Reqs |-> "poisson"]
    /\ req = [r \in Reqs |-> [NoReq EXCEPT !.endpoint = "clean-mesh"]]
    /\ tmp_input = [r \in Reqs |-> None]
    /\ input_path = [r \in Reqs |-> None]
    /\ pcd = [r \in Reqs |-> MIN_POINTS]
    /\ mesh = [r \in Reqs |-> NoMesh]
    /\ fs = [p \in {} |-> NoContent]
    /\ resp = [r \in Reqs |-> NoResp]
    /\ log = [r \in Reqs |-> <<>>]
    /\ stages = [r \in Reqs |-> <<>>]
    /\ sent = [r \in Reqs |-> NoSent]

\* create_mesh_from_point_cloud from the reconstruction on:
\* mesh, densities = TriangleMesh.create_from_point_cloud_poisson(pcd, ...),
\* the density filter, return mesh
PoissonAndDensityFilter(r) ==
    /\ pc[r] = "poisson"
    /\ \E d \in PoissonMeshes :
          mesh' = [mesh EXCEPT ![r] =
                     [vertices |-> remove_vertices_by_mask(d), densities |-> d]]
    /\ pc' = [pc EXCEPT ![r] = "returned"]
    /\ UNCHANGED <<req, tmp_input, input_path, pcd, fs, resp, log, stages,
                   sent>>

NextDensity == \E r \in Reqs : PoissonAndDensityFilter(r)

SpecDensity == InitDensity /\ [][NextDensity]_vars

\* ------------------------------------------------------------- properties
Range(q) == { q[i] : i \in DOMAIN q }

\* the handler of r has returned or raised
Left(r) == pc[r] \in {"responded", "streaming", "done"}

\* the files in the temp directory that r created as its upload's temp file
InputFilesOf(r) ==
    { p \in DOMAIN fs : fs[p].owner = r /\ fs[p].kind = "upload" }

\* the files in the temp directory that r wrote as its output
OutputFilesOf(r) ==
    { p \in DOMAIN fs : fs[p].owner = r /\ fs[p].kind \in {"mesh", "pointcloud"} }

\* the texts of the causes logged for r: each logged line without its prefix
LoggedCauses(r) == UNION { Range(Tail(log[r][i])) : i \in DOMAIN log[r] }

\* C1: once a POST handler has returned or raised, on any exit path, the
\* temporary input file the request created no longer exists
C1_InputFileGoneAfterHandler ==
    \A r \in Reqs : Left(r) => InputFilesOf(r) = {}

\* r stopped at the emptiness check: decode was the only stage run, and no
\* library failure was logged
DecodedEmpty(r) ==
    /\ pc[r] = "responded"
    /\ stages[r] = <<"decode">>
    /\ "read_point_cloud failed" \notin LoggedCauses(r)

\* C2: when decoding an accepted upload yields zero points, the response
\* has status 400
C2_EmptyInputIs400 ==
    \A r \in Reqs : DecodedEmpty(r) => resp[r].status = 400

\* r (to /clean-mesh) stopped at the check of the count left by the two
\* removals: both ran, and no library failure was logged
CleanedTooFew(r) ==
    /\ req[r].endpoint = "clean-mesh"
    /\ pc[r] = "responded"
    /\ stages[r] = <<"decode", "statistical", "radius">>
    /\ "remove_radius_outlier failed" \notin LoggedCauses(r)

\* C3: when fewer than 1000 points are left after the two removals,
\* /clean-mesh answers 400 with the remaining count in the message, and
\* reconstruction, mesh cleaning and serialization are not run
C3_TooFewIs400WithCount ==
    \A r \in Reqs :
        CleanedTooFew(r) =>
            /\ resp[r].status = 400
            /\ \E n \in PointCounts :
                  n < MIN_POINTS /\ resp[r].detail = TooFew(n)
            /\ OutputFilesOf(r) = {}

\* C4: /clean-point-cloud never serializes, nor answers 200 for, a cloud
\* left with fewer than 1000 points by the cleaning stage
C4_PcRejectsSparseCloud ==
    [][\A r \in Reqs :
          (/\ req[r].endpoint = "clean-point-cloud"
           /\ pc[r] = "serialize"
           /\ pcd[r] < MIN_POINTS)
          => /\ resp'[r].status # 200
             /\ "serialize" \notin Range(stages'[r])]_vars

\* the file name does not end in ".ply"
NotPlyName(fn) ==
    \/ Len(fn) < 4
    \/ <<fn[Len(fn) - 3], fn[Len(fn) - 2], fn[Len(fn) - 1], fn[Len(fn)]>>
         # <<".", "p", "l", "y">>

\* r was turned away by the checks before the try block: 400, no temp file
\* allocated, no file written, no stage run
RejectedUntouched(r) ==
    /\ pc[r] = "responded"
    /\ resp[r].status = 400
    /\ tmp_input[r] = None
    /\ input_path[r] = None
    /\ \A p \in DOMAIN fs : fs[p].owner # r
    /\ stages[r] = <<>>

\* C5: an upload whose file name does not end in ".ply" is answered 400 by
\* either endpoint, with no temp file, no output file and no stage run
C5_BadNameRejectedNoWrite ==
    \A r \in Reqs :
        (/\ pc[r] # "idle"
         /\ req[r].endpoint \in {"clean-mesh", "clean-point-cloud"}
         /\ NotPlyName(req[r].filename)) => RejectedUntouched(r)

C5_Witness ==
    \E r, q \in Reqs :
        /\ req[r].endpoint = "clean-mesh"
        /\ req[q].endpoint = "clean-point-cloud"
        /\ NotPlyName(req[r].filename) /\ RejectedUntouched(r)
        /\ NotPlyName(req[q].filename) /\ RejectedUntouched(q)

C7_OkOnlyAfterArtifactWritten ==
    [][\A r \in Reqs :
          (pc[r] = "serialize" /\ resp'[r].status = 200) =>
              /\ Exists(fs', resp'[r].path)
              /\ fs'[resp'[r].path].owner = r
              /\ fs'[resp'[r].path].whole]_vars

\* C8: a 500 response carries a generic message: no text of the underlying
\* cause, which is in the server log only
C8_GenericMessageOn500 ==
    \A r \in Reqs :
        resp[r].status = 500 =>
            LoggedCauses(r) \cap Range(resp[r].detail) = {}

\* the handler of r is active and holds a temp input path
Holds(r) == ~Left(r) /\ tmp_input[r] # None

\* the extension of the output r writes
Ext(r) == IF req[r].endpoint = "clean-mesh" THEN req[r].return_format ELSE S_ply

\* the paths r holds: its temp input path and the output path derived from it
PathsHeld(r) == { tmp_input[r], OutputPath(tmp_input[r], Ext(r)) }

\* C9: two requests whose handlers are active at the same time never hold
\* the same temp input path, and the output path of each differs from the
\* input and output paths of the other
C9_PathsDisjoint ==
    \A r, q \in Reqs :
        (r # q /\ Holds(r) /\ Holds(q)) =>
            /\ tmp_input[r] # tmp_input[q]
            /\ PathsHeld(r) \cap PathsHeld(q) = {}
            /\ Cardinality(PathsHeld(r)) = 2

C9_Witness ==
    \E r, q \in Reqs :
        /\ r # q
        /\ pc[r] = "serialize" /\ pc[q] = "serialize"
        /\ req[r].endpoint = "clean-mesh" /\ req[r].return_format = S_ply
        /\ req[q].endpoint = "clean-point-cloud"
        /\ PathsHeld(r) \cap PathsHeld(q) = {}

\* r's artifact is written and awaits streaming
ArtifactPending(r) ==
    /\ pc[r] = "streaming"
    /\ Exists(fs, resp[r].path)
    /\ fs[resp[r].path].owner = r

\* C10: from the moment a request's artifact is written until it has been
\* streamed, no other request creates, overwrites or deletes the file at
\* its path
C10_ArtifactUntouchedUntilStreamed ==
    [][\A r \in Reqs :
          (ArtifactPending(r) /\ pc'[r] = "streaming") =>
              /\ Exists(fs', resp[r].path)
              /\ fs'[resp[r].path] = fs[resp[r].path]]_vars

\* the step is the one in which the handler of r returns or raises
Exits(r) == ~Left(r) /\ Left(r)'

\* what the output r writes holds
Kind(r) == IF req[r].endpoint = "clean-mesh" THEN "mesh" ELSE "pointcloud"

\* C11: the cleanup of a handler deletes nothing but the request's own temp
\* input file: in the step in which a handler returns or raises, the only
\* file that can leave the temp directory is an upload file of that request,
\* every file of another request stays, and stays as it was unless it lies
\* at the path this request writes its output to; and the artifact the
\* library has written is still there, as written, after the cleanup
C11_CleanupDeletesOnlyOwnInput ==
    [][\A r \in Reqs :
          Exits(r) =>
              LET out == OutputPath(input_path[r], Ext(r)) IN
              /\ (DOMAIN fs) \ (DOMAIN fs') \subseteq InputFilesOf(r)
              /\ \A p \in DOMAIN fs :
                    (fs[p].owner # r /\ p # out) =>
                        Exists(fs', p) /\ fs'[p] = fs[p]
              /\ resp'[r].status = 200 =>
                    /\ \A f \in WriteResults(fs, out, r, Kind(r)) :
                          (Exists(f, out) /\ f[out].owner = r) =>
                              /\ Exists(Finally(f, input_path[r]), out)
                              /\ Finally(f, input_path[r])[out] = f[out]
                    /\ Exists(fs', out) => fs'[out].whole]_vars

\* a handler has returned its response: its input file is gone and its
\* artifact is in place, while another request's upload file is still there
C11_Witness ==
    \E r, q \in Reqs :
        /\ r # q
        /\ ArtifactPending(r)
        /\ InputFilesOf(r) = {}
        /\ ~Left(q)
        /\ InputFilesOf(q) # {}

\* the step is one of the handler of r in which no error is logged
StepsQuietly(r) == pc'[r] # pc[r] /\ log'[r] = log[r]

\* C12: /clean-point-cloud, given a ".ply" upload, when no library call
\* fails: the cloud decoded is not empty when cleaning starts, cleaning
\* hands on a cloud of no more points than the one decoded, and a cleaned
\* cloud of at least 1000 points is written as a point cloud and answered
\* with 200
C12_PcCleaningOnlyRemoves ==
    [][\A r \in Reqs :
          (req[r].endpoint = "clean-point-cloud" /\ StepsQuietly(r)) =>
              /\ pc[r] = "decode" =>
                    pc'[r] = "clean" /\ pcd'[r] > 0
              /\ pc[r] = "clean" =>
                    pc'[r] = "serialize" /\ pcd'[r] <= pcd[r]
              /\ (pc[r] = "serialize" /\ pcd[r] >= MIN_POINTS) =>
                    /\ resp'[r].status = 200
                    /\ \A p \in DOMAIN fs' :
                          (fs'[p].owner = r /\ fs'[p].kind # "upload") =>
                              /\ p = resp'[r].path
                              /\ fs'[p].kind = "pointcloud"
                              /\ fs'[p].whole]_vars

\* one request has been answered 200 with its point cloud written, and
\* another holds a cleaned cloud that lost a point and still has 1000
C12_Witness ==
    \E r, q \in Reqs :
        /\ req[r].endpoint = "clean-point-cloud"
        /\ ArtifactPending(r)
        /\ resp[r].status = 200
        /\ fs[resp[r].path].kind = "pointcloud"
        /\ req[q].endpoint = "clean-point-cloud"
        /\ pc[q] = "serialize"
        /\ pcd[q] = MIN_POINTS

\* the download names that are the uploaded name of r with its final ".ply"
\* taken off and "_cleaned." and the extension of the output put on
DownloadNames(r) ==
    LET fn == req[r].filename IN
    { SubSeq(fn, 1, k - 1) \o <<"_cleaned", ".">> \o Ext(r) :
        k \in { i \in 2..Len(fn) :
                  fn[i] = "." /\ SubSeq(fn, i + 1, Len(fn)) = <<"p", "l", "y">> } }

\* C13: the download file name of a 200 response, as returned by the handler
\* and as received by the caller, is the stem of the uploaded file name
\* followed by "_cleaned." and the extension ('ply' for /clean-point-cloud,
\* return_format for /clean-mesh); two requests with the same uploaded name
\* and extension get the same download name, whatever their temp paths
C13_DownloadNameFromUploadName ==
    \A r \in Reqs :
        /\ pc[r] = "streaming" =>
              /\ resp[r].filename \in DownloadNames(r)
              /\ Cardinality(DownloadNames(r)) = 1
              /\ \A q \in Reqs :
                    (/\ pc[q] = "streaming"
                     /\ req[q].filename = req[r].filename
                     /\ Ext(q) = Ext(r))
                        => resp[q].filename = resp[r].filename
        /\ (pc[r] = "done" /\ sent[r].status = 200) =>
              sent[r].filename \in DownloadNames(r)

\* two responses for the same uploaded name and extension, from different
\* endpoints and with different artifact paths, both with the download name
\* "a.b_cleaned.ply"
C13_Witness ==
    \E r, q \in Reqs :
        /\ pc[r] = "streaming" /\ pc[q] = "streaming"
        /\ req[r].endpoint = "clean-mesh" /\ req[r].return_format = S_ply
        /\ req[q].endpoint = "clean-point-cloud"
        /\ resp[r].path # resp[q].path
        /\ resp[r].filename = resp[q].filename
        /\ resp[r].filename = <<"a", ".", "b", "_cleaned", ".", "p", "l", "y">>

\* C14: GET / can be answered in every state, whatever the other requests
\* have done or are doing; its answer is 200 with the JSON object
\* {status: 'ok', service: 'Mesh Cleanup API'}, and answering it leaves the
\* temp directory and every handler's files as they are
C14_HealthCheckAlwaysOkNoFiles ==
    [][\A r \in Reqs :
          /\ pc[r] = "idle" => ENABLED root(r)
          /\ (pc[r] = "idle" /\ req'[r].endpoint = "root") =>
                /\ resp'[r].status = 200
                /\ resp'[r].json = {<<"status", "ok">>,
                                    <<"service", "Mesh Cleanup API">>}
                /\ resp'[r].path = None
                /\ fs' = fs
                /\ tmp_input' = tmp_input
                /\ sent' = sent]_vars

\* GET / has been answered 200 while the temp directory holds files and
\* another request has failed or is being processed
C14_Witness ==
    \E r, q \in Reqs :
        /\ req[r].endpoint = "root"
        /\ resp[r].status = 200
        /\ DOMAIN fs # {}
        /\ resp[q].status = 500 \/ pc[q] = "serialize"

IsPrefix(a, b) == Len(a) <= Len(b) /\ a = SubSeq(b, 1, Len(a))

\* the order of the stages of each endpoint
MeshOrder ==
    <<"decode", "statistical", "radius", "reconstruct", "mesh_clean",
      "serialize">>
PcOrder == <<"decode", "statistical", "radius", "serialize">>
OrderOf(r) ==
    IF req[r].endpoint = "clean-mesh" THEN MeshOrder
    ELSE IF req[r].endpoint = "clean-point-cloud" THEN PcOrder
         ELSE <<>>

\* the stages completed when the handler is about to run the stage named
\* by its position
DoneBefore(r) ==
    CASE pc[r] = "decode" -> <<>>
      [] pc[r] = "clean" -> <<"decode">>
      [] pc[r] = "reconstruct" -> <<"decode", "statistical", "radius">>
      [] pc[r] = "mesh_clean" ->
            <<"decode", "statistical", "radius", "reconstruct">>
      [] pc[r] = "serialize" -> SubSeq(OrderOf(r), 1, Len(OrderOf(r)) - 1)
      [] OTHER -> stages[r]

\* C15: the stages a request has run are always an initial part of decode,
\* statistical removal, radius removal, (for /clean-mesh only)
\* reconstruction, mesh clean, and serialize, each run once; a stage is
\* started only when exactly the stages before it have been run; and
\* /clean-point-cloud goes from cleaning to serialize without running
\* reconstruction or mesh clean and without ever holding a mesh
C15_StagesInOrder ==
    \A r \in Reqs :
        /\ IsPrefix(stages[r], OrderOf(r))
        /\ stages[r] = DoneBefore(r)
        /\ pc[r] \in {"idle", "mktemp", "save"} => stages[r] = <<>>
        /\ req[r].endpoint = "clean-point-cloud" =>
              /\ pc[r] \notin {"reconstruct", "mesh_clean"}
              /\ mesh[r] = "none"
              /\ Range(stages[r]) \cap {"reconstruct", "mesh_clean"} = {}

\* both endpoints have run all their stages
C15_Witness ==
    \E r, q \in Reqs :
        /\ req[r].endpoint = "clean-mesh" /\ stages[r] = MeshOrder
        /\ req[q].endpoint = "clean-point-cloud" /\ stages[q] = PcOrder

\* the density filter has run on the mesh of r
Filtered(r) == pc[r] = "returned"

\* the densities of the mesh are not all equal
Vary(d) == Cardinality({ v \in DOMAIN d : d[v] > 0 }) > 1

\* the vertices left are exactly those whose density is not strictly below
\* the 1% quantile of the densities d
KeptFromQuantileUp(d, kept) ==
    NumVertices(d) > 0 =>
        \A v \in DOMAIN d :
            kept[v] = IF 100 * v < Quantile100(d) THEN 0 ELSE d[v]

\* C16: the density filter removes exactly the vertices whose density is
\* strictly below the 1% quantile of the densities of that request's mesh,
\* and whenever the densities are not all equal it leaves fewer vertices
\* than it was given
C16_FilterReducesWhenDensitiesVary ==
    \A r \in Reqs :
        Filtered(r) =>
            /\ KeptFromQuantileUp(mesh[r].densities, mesh[r].vertices)
            /\ Vary(mesh[r].densities) =>
                  NumVertices(mesh[r].vertices) < NumVertices(mesh[r].densities)

\* the number of vertices that have the lowest density of a non-empty mesh
NumLowest(d) == d[CHOOSE v \in DOMAIN d :
                     d[v] > 0 /\ \A u \in DOMAIN d : u < v => d[u] = 0]

\* C16, amended: the density filter removes exactly the vertices whose
\* density is strictly below the 1% quantile of the densities of that
\* request's mesh: whole classes of equal density from the lowest up, never
\* more than 1 + floor((n - 1) / 100) of n vertices; and it leaves fewer
\* vertices than it was given exactly when fewer than 1 + (n - 1) / 100
\* vertices have the lowest density (of up to 100 vertices: when one has)
C16_FilterReducesWhenLowestIsRare ==
    \A r \in Reqs :
        Filtered(r) =>
            LET d == mesh[r].densities
                kept == mesh[r].vertices
                n == NumVertices(d)
            IN /\ KeptFromQuantileUp(d, kept)
               /\ \A v \in DOMAIN d : kept[v] \in {0, d[v]}
               /\ \A u, v \in DOMAIN d :
                     (u < v /\ d[u] > 0 /\ kept[u] = d[u]) => kept[v] = d[v]
               /\ n > 0 => n - NumVertices(kept) <= 1 + (n - 1) \div 100
               /\ NumVertices(kept) < n <=>
                     (n > 0 /\ 100 * NumLowest(d) < n + 99)

\* the filter has run on two meshes of three vertices: it took the one
\* vertex of lowest density from the first and nothing from the second,
\* whose lowest density two vertices share
C16_Witness ==
    \E r, q \in Reqs :
        /\ Filtered(r) /\ Filtered(q)
        /\ mesh[r].densities = [v \in Densities |-> 1]
        /\ NumVertices(mesh[r].vertices) = 2
        /\ mesh[q].densities =
              [v \in Densities |-> IF v = 1 THEN 2 ELSE IF v = 2 THEN 1 ELSE 0]
        /\ mesh[q].vertices = mesh[q].densities

\* r is a request to one of the POST endpoints
IsPost(r) == req[r].endpoint \in {"clean-mesh", "clean-point-cloud"}

\* the caller of r has its response: an HTTPException of the handler, or
\* the FileResponse as the server sent it
Terminal(r) == pc[r] \in {"responded", "done"}

\* the status the caller of r received
StatusReceived(r) == IF pc[r] = "done" THEN sent[r].status ELSE resp[r].status

\* C17: every POST request received comes to a terminal state: answered
\* 200 with the file sent, or failed with 400 or 500; a terminal state is
\* never left and the response is not replaced by another one; and when a
\* handler that has started processing returns or raises, the file at its
\* input_path has been removed by then
C17_EveryRequestEndsOnce ==
    /\ \A r \in Reqs : (pc[r] # "idle") ~> Terminal(r)
    /\ [][\A r \in Reqs :
            /\ (IsPost(r)' /\ Terminal(r)') =>
                  StatusReceived(r)' \in {200, 400, 500}
            /\ (IsPost(r)' /\ ~Terminal(r)') =>
                  (sent'[r] = NoSent /\ resp'[r].status \in {0, 200})
            /\ Terminal(r) =>
                  /\ pc'[r] = pc[r]
                  /\ resp'[r] = resp[r]
                  /\ sent'[r] = sent[r]
            /\ (Exits(r) /\ Truthy(input_path[r])) =>
                  ~Exists(fs', input_path[r])]_vars

\* one request has been answered 200 with its file sent and another has
\* failed in the pipeline with 500, its input file removed
C17_Witness ==
    \E r, q \in Reqs :
        /\ IsPost(r) /\ pc[r] = "done" /\ sent[r].status = 200
        /\ IsPost(q) /\ pc[q] = "responded" /\ resp[q].status = 500
        /\ "decode" \in Range(stages[q])
        /\ InputFilesOf(q) = {}

\* C18: a POST request is answered 400 only by the checks before the try
\* block, with no temp file created, no stage run and nothing logged; once
\* the handler is in the try block, every failure, an HTTPException(400)
\* raised there included, is logged by the except clause and answered with
\* the 500 that clause raises, its detail the logged line
C18_Only500AfterTempAllocation ==
    [][\A r \in Reqs :
          /\ resp'[r].status = 400 =>
                /\ resp[r].status # 400 => pc[r] = "idle"
                /\ pc'[r] = "responded"
                /\ stages'[r] = <<>>
                /\ log'[r] = <<>>
                /\ \A p \in DOMAIN fs' : fs'[p].owner # r
          /\ (Exits(r) /\ pc[r] # "idle" /\ resp'[r].status # 200) =>
                /\ resp'[r].status = 500
                /\ resp'[r].detail[1] =
                      (IF req[r].endpoint = "clean-mesh"
                       THEN "Error processing mesh: "
                       ELSE "Error processing point cloud: ")
                /\ log'[r] = Append(log[r], resp'[r].detail)]_vars

\* one request was turned away with 400 by the checks, and another, whose
\* decoded cloud was empty, was answered 500 by the except clause
C18_Witness ==
    \E r, q \in Reqs :
        /\ IsPost(r) /\ RejectedUntouched(r)
        /\ IsPost(q) /\ resp[q].status = 500
        /\ stages[q] = <<"decode">>
        /\ "Point cloud is empty" \in Range(resp[q].detail)

====
